---- MODULE Spec2Model ----
(***************************************************************************)
(* A model of the XML Indexer extension (harhsal24/xml-index): the tag     *)
(* scanner (nesting-aware and chunked), the sibling grouper, the           *)
(* version-gated document cache and the event handlers that drive them.    *)
(*                                                                         *)
(* A document text is a sequence of items: opening, closing and            *)
(* self-closing tags, newlines, and runs of other characters (a run is     *)
(* kept as its length, so that texts above the 50,000 character threshold  *)
(* stay small values).  Offsets, lengths, chunk boundaries and line        *)
(* numbers are computed from the item lengths as the code computes them    *)
(* from the characters.                                                    *)
(***************************************************************************)
EXTENDS Integers, Sequences, FiniteSets, TLC

VARIABLES
    docText,                \* document.getText() of every document
    docVersion,             \* document.version of every document
    docOpen,                \* whether the host holds the document open
    active,                 \* vscode.window.activeTextEditor (NoDoc: none)
    documentCache,          \* the Map documentCache, in insertion order
    lastIndexedVersionMap,  \* the Map lastIndexedVersionMap (0: no entry)
    xmlIndexerData,         \* the Map globalThis.xmlIndexerData
    debouncedTimeouts,      \* the Map debouncedTimeouts: key -> timeout id
    timers,                 \* the host's pending setTimeout callbacks
    inflight,               \* suspended scanLargeDocument calls, oldest first
    doneData,               \* history: result of a completed scan of the current version
    recency,                \* history: documents by latest stored scan, oldest first
    last,                   \* history: the handler that ran last
    inlineMode,             \* globalState "xiInlineMode"
    tokenTypeField,         \* whether the parser's tokens carry `tokenType`
    updateTimeout,          \* utils/events.js: the closure variable updateTimeout
    updateTimers,           \* utils/events.js: the host's pending setTimeout callbacks
    lastIndexedData,        \* utils/indexer.js: lastIndexedData
    viewportMode,           \* globalState "xiViewportMode"
    cursorMode,             \* globalState "xiCursorMode"
    annotationMode,         \* globalState "xiAnnotationMode"
    cursorLine,             \* editor.selection.active.line
    visibleRanges,          \* the lines editor.visibleRanges holds, as pairs
    shown,                  \* history: the query that ran last and what it displayed
    heap,                   \* history: the arrays processAndCacheResults built, oldest first
    heapTraced,             \* whether heap is kept
    host                    \* the commands and listeners the extension host holds

vars == <<docText, docVersion, docOpen, active, documentCache,
          lastIndexedVersionMap, xmlIndexerData, debouncedTimeouts, timers,
          inflight, doneData, recency, last, inlineMode,
          tokenTypeField, updateTimeout, updateTimers, lastIndexedData,
          viewportMode, cursorMode, annotationMode, cursorLine,
          visibleRanges, shown, heap, heapTraced, host>>

eventsVars == <<updateTimeout, updateTimers, lastIndexedData>>
queryVars == <<viewportMode, cursorMode, annotationMode, cursorLine,
               visibleRanges, shown>>

----------------------------------------------------------------------------
(* Bounds of the model *)

\* documents the cache specification opens
NumDocs == 6
\* highest document version an edit produces
MaxVersion == 3
\* chunked scans suspended at the same time
MaxInflight == 2
\* items of an enumerated input text
MaxItems == 4
\* timers utils/events.js starts
MaxTimers == 3
\* the last line of a document a query looks at
MaxLine == 1

(* Program constants *)

LARGE_FILE_THRESHOLD == 50000
chunkSize == 10000
MAX_CACHE_SIZE == 5

\* `parent: null` of an entry, and the absent value of a number-valued Map
Null == 0
\* no active editor / no document
NoDoc == 0

Docs == 1..NumDocs

\* the document that is edited (the others are only opened and scanned)
EditedDocs == {1}

----------------------------------------------------------------------------
(* Document text *)

OpenTag(t) == [kind |-> "open", tag |-> t, n |-> Len(t) + 2]
SelfTag(t) == [kind |-> "self", tag |-> t, n |-> Len(t) + 3]
CloseTag(t) == [kind |-> "close", tag |-> t, n |-> Len(t) + 3]
Chars(k) == [kind |-> "text", tag |-> <<>>, n |-> k]
NewLine == [kind |-> "nl", tag |-> <<>>, n |-> 1]

IsTag(it) == it.kind \in {"open", "self", "close"}

\* text.length: the sum of the item lengths (by halves)
RECURSIVE TextLength(_)
TextLength(text) ==
    IF text = <<>> THEN 0
    ELSE IF Len(text) = 1 THEN text[1].n
    ELSE LET h == Len(text) \div 2 IN
         TextLength(SubSeq(text, 1, h)) + TextLength(SubSeq(text, h + 1, Len(text)))

\* offset of item i: the length of the items before it
OffsetOf(text, i) == TextLength(SubSeq(text, 1, i - 1))

\* text.slice(0, offset).split("\n").length - 1
LinesBefore(text, offset) ==
    Cardinality({j \in 1..Len(text) :
                    text[j].kind = "nl" /\ OffsetOf(text, j) < offset})

----------------------------------------------------------------------------
(* JavaScript Map: entries in insertion order; set() on a present key      *)
(* replaces the value in place, delete() removes the entry.                *)

MapHas(m, k) == \E i \in 1..Len(m) : m[i].key = k
MapGet(m, k) == m[CHOOSE i \in 1..Len(m) : m[i].key = k].val
MapGetOr(m, k, dflt) == IF MapHas(m, k) THEN MapGet(m, k) ELSE dflt
MapSet(m, k, v) ==
    IF MapHas(m, k)
    THEN SubSeq([i \in 1..Len(m) |->
                    IF m[i].key = k THEN [key |-> k, val |-> v] ELSE m[i]],
                1, Len(m))
    ELSE Append(m, [key |-> k, val |-> v])
MapDelete(m, k) == SelectSeq(m, LAMBDA e : e.key # k)
MapKeys(m) == {m[i].key : i \in 1..Len(m)}

\* an optional value: <<>> is undefined, <<v>> is v
None == <<>>
Some(v) == <<v>>

----------------------------------------------------------------------------
(* scanRegularDocument: the nesting-aware tokenizer *)

\* The token list the parser hands to the loop, in document order.  The
\* parser is a dependency; the source documents its tokens as
\* {type, tagName, startIndex, isSelfClosing, ...}.  The loop reads
\* tok.type and tok.tokenType: whether a token carries the second field is
\* left to the parser, and reading an absent field gives undefined.
TokenOf(text, i) ==
    [type      |-> CASE text[i].kind = "open" -> "opentag"
                     [] text[i].kind = "self" -> "selfclose"
                     [] OTHER -> "closetag",
     tokenType |-> IF ~tokenTypeField THEN "undefined"
                   ELSE CASE text[i].kind = "open" -> "OpenTag"
                          [] text[i].kind = "self" -> "SelfClose"
                          [] OTHER -> "CloseTag",
     tagName   |-> text[i].tag,
     startIndex |-> OffsetOf(text, i)]

RECURSIVE TokensFrom(_, _)
TokensFrom(text, i) ==
    IF i > Len(text) THEN <<>>
    ELSE IF IsTag(text[i]) THEN <<TokenOf(text, i)>> \o TokensFrom(text, i + 1)
    ELSE TokensFrom(text, i + 1)

Tokenize(text) == TokensFrom(text, 1)

RecordsEveryToken(tok) == TRUE
\* `if (tok.type === "opentag" || tok.type === "selfclose")`
RecordsEntry(tok) == tok.type = "opentag" \/ tok.type = "selfclose"

\* `if (tok.tokenType === "OpenTag") stack.push(...)`
PushesFrame(tok) == tok.tokenType = "OpenTag"

\* `else if (tok.tokenType === "CloseTag") stack.pop()`
PopsFrame(tok) == tok.tokenType = "CloseTag"

\* stack.pop(): a no-op on an empty stack
Pop(stack) == IF stack = <<>> THEN stack ELSE SubSeq(stack, 1, Len(stack) - 1)

RECURSIVE ScanLoop(_, _, _, _, _)
ScanLoop(text, toks, data, globalId, stack) ==
    IF toks = <<>> THEN data
    ELSE LET tok == Head(toks) IN
         IF RecordsEntry(tok)
         THEN LET id == globalId + 1
                  entry == [tag    |-> tok.tagName,
                            offset |-> tok.startIndex,
                            line   |-> LinesBefore(text, tok.startIndex),
                            parent |-> IF stack = <<>> THEN Null
                                       ELSE stack[Len(stack)].id,
                            id     |-> id]
              IN ScanLoop(text, Tail(toks), Append(data, entry), id,
                          IF PushesFrame(tok)
                          THEN Append(stack, [id |-> id, tag |-> tok.tagName])
                          ELSE stack)
         ELSE IF PopsFrame(tok)
         THEN ScanLoop(text, Tail(toks), data, globalId, Pop(stack))
         ELSE ScanLoop(text, Tail(toks), data, globalId, stack)

\* the entries scanRegularDocument passes to processAndCacheResults
RegularData(text) == ScanLoop(text, Tokenize(text), <<>>, 0, <<>>)

----------------------------------------------------------------------------
(* processChunkRegex and scanLargeDocument: the chunked scanner *)

MatchesInOpenEnded(text, i, start, end) ==
    IsTag(text[i]) /\ OffsetOf(text, i) >= start

\* The tag pattern matches a tag that lies wholly inside the chunk; of a tag
\* cut by the end of the chunk neither part matches ("<name" has no ">",
\* the rest has no "<").
MatchesIn(text, i, start, end) ==
    /\ IsTag(text[i])
    /\ OffsetOf(text, i) >= start
    /\ OffsetOf(text, i) + text[i].n <= end

\* chunk.substring(0, match.index).split("\n").length - 1
ChunkLine(text, i, start) ==
    Cardinality({j \in 1..Len(text) :
                    /\ text[j].kind = "nl"
                    /\ OffsetOf(text, j) >= start
                    /\ OffsetOf(text, j) < OffsetOf(text, i)})

isCloseNever(item) == FALSE
\* `const isClose = full.startsWith("</")`
isClose(item) == item.kind = "close"

ChunkStepLocal(text, i, start, end, acc) ==
    IF MatchesIn(text, i, start, end) /\ ~isClose(text[i])
    THEN [entries |-> Append(acc.entries,
                             [tag    |-> text[i].tag,
                              offset |-> OffsetOf(text, i) - start,
                              line   |-> ChunkLine(text, i, start),
                              parent |-> Null,
                              id     |-> acc.nextId + 1]),
          nextId  |-> acc.nextId + 1]
    ELSE acc

\* one turn of `while ((match = regex.exec(chunk)))`, at item i
ChunkStep(text, i, start, end, acc) ==
    IF MatchesIn(text, i, start, end) /\ ~isClose(text[i])
    THEN [entries |-> Append(acc.entries,
                             [tag    |-> text[i].tag,
                              offset |-> OffsetOf(text, i),
                              line   |-> ChunkLine(text, i, start),
                              parent |-> Null,
                              id     |-> acc.nextId + 1]),
          nextId  |-> acc.nextId + 1]
    ELSE acc

\* the turns at items lo..hi, in order (the range is taken by halves)
RECURSIVE ChunkMatches(_, _, _, _, _, _)
ChunkMatches(text, lo, hi, start, end, acc) ==
    \* (the test on acc has it evaluated before the range is entered)
    IF lo > hi \/ acc.nextId < 0 THEN acc
    ELSE IF lo = hi THEN ChunkStep(text, lo, start, end, acc)
    ELSE LET mid == (lo + hi) \div 2 IN
         \* (the turns of the first half are taken once, then the others)
         CHOOSE r \in {ChunkMatches(text, mid + 1, hi, start, end, first) :
                          first \in {ChunkMatches(text, lo, mid, start, end, acc)}} :
             TRUE

Min(a, b) == IF a < b THEN a ELSE b

processChunkRegexFromZero(text, start, startId) ==
    ChunkMatches(text, 1, Len(text), start,
                 Min(start + chunkSize, TextLength(text)),
                 [entries |-> <<>>, nextId |-> 0])

\* processChunkRegex(text.slice(start, min(start + chunkSize, length)), start,
\* startId)
processChunkRegex(text, start, startId) ==
    ChunkMatches(text, 1, Len(text), start,
                 Min(start + chunkSize, TextLength(text)),
                 [entries |-> <<>>, nextId |-> startId])

YieldsNever(start) == FALSE
\* `if (start % (chunkSize * 2) === 0) await ...`
YieldsAfter(start) == start % (chunkSize * 2) = 0

RunChunksAbandons(text, start, data, globalId) ==
    [done |-> TRUE, start |-> start, data |-> data, globalId |-> globalId]

\* The loop of scanLargeDocument from `start` up to its next suspension
\* (done = FALSE: suspended, to continue at `start`) or to its end.
RECURSIVE RunChunks(_, _, _, _)
RunChunks(text, start, data, globalId) ==
    IF start >= TextLength(text)
    THEN [done |-> TRUE, start |-> start, data |-> data, globalId |-> globalId]
    ELSE LET r == processChunkRegex(text, start, globalId) IN
         IF YieldsAfter(start)
         THEN [done |-> FALSE, start |-> start + chunkSize,
               data |-> data \o r.entries, globalId |-> r.nextId]
         ELSE RunChunks(text, start + chunkSize, data \o r.entries, r.nextId)

\* the entries a chunked scan run to its end passes to processAndCacheResults
RECURSIVE ChunkedData(_, _, _, _)
ChunkedData(text, start, data, globalId) ==
    LET r == RunChunks(text, start, data, globalId) IN
    IF r.done THEN r.data ELSE ChunkedData(text, r.start, r.data, r.globalId)

----------------------------------------------------------------------------
(* processAndCacheResults: the sibling grouper *)

Digit == <<"0", "1", "2", "3", "4", "5", "6", "7", "8", "9">>

\* the decimal rendering of a number in a template literal
RECURSIVE Decimal(_)
Decimal(k) ==
    IF k < 10 THEN <<Digit[k + 1]>>
    ELSE Decimal(k \div 10) \o <<Digit[(k % 10) + 1]>>

ParentKeyRoot(entry) == <<"R", "O", "O", "T">>
\* `entry.parent || "ROOT"`, as the characters the template literal renders
ParentKey(entry) ==
    IF entry.parent = Null THEN <<"R", "O", "O", "T">> ELSE Decimal(entry.parent)

SiblingKeyTagOnly(entry) == entry.tag
\* `${parentKey}:${entry.tag}`
SiblingKey(entry) == ParentKey(entry) \o <<":">> \o entry.tag

\* first pass: siblingCounts
\* first pass, entry i: `siblingCounts.set(siblingKey, (get || 0) + 1)`
CountStep(data, i, siblingCounts) ==
    LET k == SiblingKey(data[i]) IN
    MapSet(siblingCounts, k, MapGetOr(siblingCounts, k, 0) + 1)

\* first pass over entries lo..hi, in order (the range is taken by halves)
RECURSIVE CountSiblings(_, _, _, _)
CountSiblings(data, lo, hi, siblingCounts) ==
    \* (the test on the map has it evaluated before the range is entered)
    IF lo > hi \/ Len(siblingCounts) < 0 THEN siblingCounts
    ELSE IF lo = hi THEN CountStep(data, lo, siblingCounts)
    ELSE LET mid == (lo + hi) \div 2 IN
         CountSiblings(data, mid + 1, hi,
                       CountSiblings(data, lo, mid, siblingCounts))

NeedsIndexingAlways(siblingCount) == TRUE
\* `needsIndexing: siblingCount > 1`
NeedsIndexing(siblingCount) == siblingCount > 1

\* second pass, entry at `index`: tagOrderTrackers and processedData
ProcessStep(data, index, siblingCounts, acc) ==
    LET entry == data[index]
        k == SiblingKey(entry)
        siblingCount == MapGet(siblingCounts, k)
        order == MapGetOr(acc.tagOrderTrackers, k, 0) + 1
        processedEntry ==
            [tag            |-> entry.tag,
             offset         |-> entry.offset,
             line           |-> entry.line,
             parent         |-> entry.parent,
             id             |-> entry.id,
             globalSequence |-> index,
             orderInTag     |-> order,
             siblingCount   |-> siblingCount,
             needsIndexing  |-> NeedsIndexing(siblingCount),
             parentKey      |-> ParentKey(entry)]
    IN [tagOrderTrackers |-> MapSet(acc.tagOrderTrackers, k, order),
        processedData    |-> Append(acc.processedData, processedEntry)]

\* second pass over entries lo..hi, in order (the range is taken by halves)
RECURSIVE ProcessEntries(_, _, _, _, _)
ProcessEntries(data, lo, hi, siblingCounts, acc) ==
    \* (the test on acc has it evaluated before the range is entered)
    IF lo > hi \/ Len(acc.processedData) < 0 THEN acc
    ELSE IF lo = hi THEN ProcessStep(data, lo, siblingCounts, acc)
    ELSE LET mid == (lo + hi) \div 2 IN
         ProcessEntries(data, mid + 1, hi, siblingCounts,
                        ProcessEntries(data, lo, mid, siblingCounts, acc))

\* processedData of processAndCacheResults(document, data)
ProcessedData(data) ==
    ProcessEntries(data, 1, Len(data),
                   CountSiblings(data, 1, Len(data), <<>>),
                   [tagOrderTrackers |-> <<>>, processedData |-> <<>>]).processedData

IsLargeAlways(text) == TRUE
\* `text.length > LARGE_FILE_THRESHOLD`
IsLarge(text) == TextLength(text) > LARGE_FILE_THRESHOLD
\* what scanDocumentForTags computes from a text when it does scan
ScanResult(text) ==
    IF IsLarge(text) THEN ProcessedData(ChunkedData(text, 0, <<>>, 0))
    ELSE ProcessedData(RegularData(text))

----------------------------------------------------------------------------
(* Texts of the documents *)

TagA == <<"a">>
TagB == <<"b">>
TagC == <<"c">>
TagX == <<"x">>
TagY == <<"y">>

\* <a><b/><b/><c/></a>
ScenarioText ==
    <<OpenTag(TagA), SelfTag(TagB), SelfTag(TagB), SelfTag(TagC), CloseTag(TagA)>>

\* above the threshold: six chunks, two <x/> at top level in different chunks
LargeTextX == <<Chars(30000), SelfTag(TagX), Chars(20000), SelfTag(TagX)>>

\* above the threshold: six chunks, one <y/> at top level
LargeTextY == <<SelfTag(TagY), Chars(50000)>>

\* the texts an edit can leave in a document
EditTexts == {ScenarioText, LargeTextX, LargeTextY}

\* the items of an enumerated input text
InputItems ==
    {OpenTag(TagA), SelfTag(TagA), CloseTag(TagA),
     OpenTag(TagB), SelfTag(TagB), CloseTag(TagB), NewLine}

\* the texts the scanner specification scans
InputTexts ==
    UNION {[1..k -> InputItems] : k \in 0..MaxItems} \cup {ScenarioText}

Repeat(item, n) == [i \in 1..n |-> item]

\* above the threshold: <x/> one hundred times at top level, 40 in the first
\* chunk and 60 in the second, none cut by a chunk boundary
HundredX ==
    Repeat(SelfTag(TagX), 40) \o <<Chars(chunkSize - 40 * SelfTag(TagX).n)>>
        \o Repeat(SelfTag(TagX), 60) \o <<Chars(LARGE_FILE_THRESHOLD)>>

\* texts above the threshold: a newline, then a bounded text that starts three
\* characters before the first chunk boundary, then other characters
PaddedTexts ==
    {<<NewLine, Chars(chunkSize - 4)>> \o t \o <<Chars(LARGE_FILE_THRESHOLD)>> :
        t \in {u \in InputTexts : Len(u) < MaxItems}}

\* a text followed by other characters up to a length of n
PadTo(text, n) == text \o <<Chars(n - TextLength(text))>>

\* <a><b/></a> in a text of exactly LARGE_FILE_THRESHOLD characters
ThresholdText ==
    PadTo(<<OpenTag(TagA), SelfTag(TagB), CloseTag(TagA)>>, LARGE_FILE_THRESHOLD)

\* the same text, one character longer
OverThresholdText ==
    PadTo(<<OpenTag(TagA), SelfTag(TagB), CloseTag(TagA)>>,
          LARGE_FILE_THRESHOLD + 1)

\* the texts the scanner specification scans, on either path
ScanTexts ==
    InputTexts \cup EditTexts \cup PaddedTexts
        \cup {HundredX, ThresholdText, OverThresholdText}

----------------------------------------------------------------------------
(* Version check, cache write, eviction *)

\* shouldReindex: `!lastVersion || lastVersion !== currentVersion`
shouldReindex(d) ==
    lastIndexedVersionMap[d] = Null \/ lastIndexedVersionMap[d] # docVersion[d]

\* cleanupMemory: the keys of entries.slice(0, entries.length - MAX_CACHE_SIZE)
toDelete(cache) ==
    IF Len(cache) > MAX_CACHE_SIZE
    THEN {cache[i].key : i \in 1..(Len(cache) - MAX_CACHE_SIZE)}
    ELSE {}

\* what runs after `await scanDocumentForTags(...)`: doIndexDisplay ends with
\* cleanupMemory(), the commands do not call it
CleansUp(caller) == caller = "display"

Evicted(caller, cache) == IF CleansUp(caller) THEN toDelete(cache) ELSE {}

CacheAfter(caller, cache) ==
    SelectSeq(cache, LAMBDA e : e.key \notin Evicted(caller, cache))

VersionsKept(caller, cache, vm) == vm
\* cleanupMemory: `lastIndexedVersionMap.delete(key)` for each deleted key
VersionsAfter(caller, cache, vm) ==
    [d \in Docs |-> IF d \in Evicted(caller, cache) THEN Null ELSE vm[d]]

\* history: d becomes the most recently scanned document
Touch(rec, d) == Append(SelectSeq(rec, LAMBDA e : e # d), d)

\* history: the handler that ran last.  op: "call" (scanDocumentForTags was
\* called), "commit" (a suspended scan stored its result), "throw" (the scan
\* threw), "close", "deactivate", "other";
\* evicted: the keys cleanupMemory deleted; cancelled: the debounce keys a
\* close cancelled; hit, data: whether the call returned the cached index, and
\* the index it returned; prev: doneData of the document before the call.
Ran(op, d) ==
    [op |-> op, doc |-> d, evicted |-> {}, cancelled |-> {},
     hit |-> FALSE, data |-> None, prev |-> None]

StoreGlobalSkips(store, d, processedData) == store
\* `if (globalThis.xmlIndexerData) globalThis.xmlIndexerData.set(docKey,
\* processedData)`: activate made the Map
StoreGlobal(store, d, processedData) ==
    [store EXCEPT ![d] = Some(processedData)]

\* scanDocumentForTags(d) called by `caller`, and what the caller does after it
\* returns; a chunked scan runs to its first suspension.
CallScan(d, caller) ==
    LET reindex == shouldReindex(d)
        vm1 == IF reindex
               THEN [lastIndexedVersionMap EXCEPT ![d] = docVersion[d]]
               ELSE lastIndexedVersionMap
        cached == MapHas(documentCache, d)
        text == docText[d]
    IN
    IF ~reindex /\ cached
    THEN /\ documentCache' = CacheAfter(caller, documentCache)
         /\ lastIndexedVersionMap' = VersionsAfter(caller, documentCache, vm1)
         /\ last' = [Ran("call", d) EXCEPT
                        !.evicted = Evicted(caller, documentCache),
                        !.hit = TRUE,
                        !.data = Some(MapGet(documentCache, d)),
                        !.prev = doneData[d]]
         /\ UNCHANGED <<xmlIndexerData, inflight, doneData, recency>>
    ELSE IF IsLarge(text)
    THEN LET r == RunChunks(text, 0, <<>>, 0) IN
         /\ Len(inflight) < MaxInflight
         /\ inflight' = Append(inflight,
                [doc |-> d, ver |-> docVersion[d], text |-> text,
                 start |-> r.start, data |-> r.data, globalId |-> r.globalId,
                 caller |-> caller])
         /\ lastIndexedVersionMap' = vm1
         /\ last' = [Ran("call", d) EXCEPT !.prev = doneData[d]]
         /\ UNCHANGED <<documentCache, xmlIndexerData, doneData, recency>>
    ELSE LET processedData == ProcessedData(RegularData(text))
             cache1 == MapSet(documentCache, d, processedData)
         IN
         /\ documentCache' = CacheAfter(caller, cache1)
         /\ lastIndexedVersionMap' = VersionsAfter(caller, cache1, vm1)
         /\ xmlIndexerData' = StoreGlobal(xmlIndexerData, d, processedData)
         /\ last' = [Ran("call", d) EXCEPT
                        !.evicted = Evicted(caller, cache1),
                        !.data = Some(processedData),
                        !.prev = doneData[d]]
         /\ doneData' = [doneData EXCEPT ![d] = Some(processedData)]
         /\ recency' = Touch(recency, d)
         /\ UNCHANGED inflight

\* scanDocumentForTags(d) when `parser.parse(text, true)` throws: shouldReindex
\* has recorded the version, nothing is tokenized or stored, and the
\* caller's catch ends the handler
ScanThrows(d) ==
    /\ shouldReindex(d) \/ ~MapHas(documentCache, d)
    /\ ~IsLarge(docText[d])
    /\ lastIndexedVersionMap' =
           IF shouldReindex(d)
           THEN [lastIndexedVersionMap EXCEPT ![d] = docVersion[d]]
           ELSE lastIndexedVersionMap
    /\ last' = [Ran("throw", d) EXCEPT !.prev = doneData[d]]
    /\ UNCHANGED <<documentCache, xmlIndexerData, inflight, doneData, recency>>

\* a handler that ends without scanning
NoScan(d) ==
    /\ last' = Ran("other", d)
    /\ UNCHANGED <<documentCache, lastIndexedVersionMap, xmlIndexerData,
                   inflight, doneData, recency>>

\* `const processedData = []`: every scan that runs processAndCacheResults
\* builds a new array, which no earlier array shares
AllocReusing(h, data) ==
    IF h = <<>> THEN <<data>> ELSE [h EXCEPT ![Len(h)] = data]
Alloc(h, data) == Append(h, data)

\* the arrays in existence after a step that ran scanDocumentForTags
HeapAfter ==
    IF heapTraced /\ last'.op \in {"call", "commit"} /\ ~last'.hit
                  /\ last'.data # None
    THEN Alloc(heap, last'.data[1])
    ELSE heap

\* the state the handlers of the main module's editing, caching and closing
\* paths do not write
Elsewhere ==
    /\ heap' = HeapAfter
    /\ UNCHANGED <<tokenTypeField, heapTraced, host, eventsVars, queryVars>>

\* doIndexDisplay()
doIndexDisplay ==
    IF active = NoDoc THEN NoScan(NoDoc) ELSE CallScan(active, "display")

----------------------------------------------------------------------------
(* debounceOperation *)

TimerKinds == {"editor", "change"}
TimerKeys == [kind : TimerKinds, doc : Docs]
Key(kind, d) == [kind |-> kind, doc |-> d]

\* the timers left after clearTimeout(id)
Cleared(ts, id) == {t \in ts : t.id # id}

\* the id setTimeout returns: one no pending timer has
FreshId(ts) ==
    CHOOSE i \in 1..(Cardinality(ts) + 1) :
        /\ \A t \in ts : t.id # i
        /\ \A j \in 1..(i - 1) : \E t \in ts : t.id = j

DebouncedTimersKeeping(key) ==
    timers \cup {[id |-> FreshId(timers), key |-> key]}

\* debounceOperation(key, operation, delay): the host's timers afterwards
DebouncedTimers(key) ==
    LET kept == Cleared(timers, debouncedTimeouts[key]) IN
    kept \cup {[id |-> FreshId(kept), key |-> key]}

\* debounceOperation(key, operation, delay): debouncedTimeouts afterwards
DebouncedMap(key) ==
    LET kept == Cleared(timers, debouncedTimeouts[key]) IN
    [debouncedTimeouts EXCEPT ![key] = FreshId(kept)]

----------------------------------------------------------------------------
(* Events and commands *)

\* onDidChangeTextDocument: an edit replaces the text and advances the version
Edit(d, t) ==
    /\ docOpen[d]
    /\ active = d
    /\ docVersion[d] < MaxVersion
    /\ t # docText[d]
    /\ docText' = [docText EXCEPT ![d] = t]
    /\ docVersion' = [docVersion EXCEPT ![d] = @ + 1]
    /\ IF active = d
       THEN /\ timers' = DebouncedTimers(Key("change", d))
            /\ debouncedTimeouts' = DebouncedMap(Key("change", d))
       ELSE UNCHANGED <<timers, debouncedTimeouts>>
    /\ last' = Ran("other", d)
    /\ doneData' = [doneData EXCEPT ![d] = None]
    /\ Elsewhere
    /\ UNCHANGED <<docOpen, active, documentCache, lastIndexedVersionMap,
                   xmlIndexerData, inflight, recency, inlineMode>>

\* onDidChangeActiveTextEditor(undefined): the last editor is closed
CloseEditor ==
    /\ active # NoDoc
    /\ active' = NoDoc
    /\ NoScan(NoDoc)
    /\ Elsewhere
    /\ UNCHANGED <<docText, docVersion, docOpen, debouncedTimeouts, timers,
                   inlineMode>>

\* onDidChangeActiveTextEditor: both listeners
SetActive(d) ==
    /\ d # active
    /\ active' = d
    /\ docOpen' = [docOpen EXCEPT ![d] = TRUE]
    /\ timers' = DebouncedTimers(Key("editor", d))
    /\ debouncedTimeouts' = DebouncedMap(Key("editor", d))
    /\ IF inlineMode THEN CallScan(d, "display") ELSE NoScan(d)
    /\ Elsewhere
    /\ UNCHANGED <<docText, docVersion, inlineMode>>

\* a debounce timer fires: `debouncedTimeouts.delete(key); operation()`
TimerFire(t) ==
    /\ t \in timers
    /\ timers' = timers \ {t}
    /\ debouncedTimeouts' = [debouncedTimeouts EXCEPT ![t.key] = Null]
    /\ doIndexDisplay
    /\ Elsewhere
    /\ UNCHANGED <<docText, docVersion, docOpen, active, inlineMode>>

\* doIndexDisplay(), the parser throwing: `catch (error)` reports it, and
\* cleanupMemory is not reached
doIndexDisplayThrows ==
    /\ active # NoDoc
    /\ ScanThrows(active)

\* a debounce timer fires and the scan of doIndexDisplay throws
TimerFireThrows(t) ==
    /\ t \in timers
    /\ timers' = timers \ {t}
    /\ debouncedTimeouts' = [debouncedTimeouts EXCEPT ![t.key] = Null]
    /\ doIndexDisplayThrows
    /\ Elsewhere
    /\ UNCHANGED <<docText, docVersion, docOpen, active, inlineMode>>

\* onDidSaveTextDocument
Save(d) ==
    /\ active = d
    /\ doIndexDisplay
    /\ Elsewhere
    /\ UNCHANGED <<docText, docVersion, docOpen, active, debouncedTimeouts,
                   timers, inlineMode>>

\* command xi.indexChildrenAll
IndexChildrenAll ==
    /\ active # NoDoc
    /\ CallScan(active, "command")
    /\ Elsewhere
    /\ UNCHANGED <<docText, docVersion, docOpen, active, debouncedTimeouts,
                   timers, inlineMode>>

\* command xi.indexChildrenAll, the parser throwing: the catch reports it
IndexChildrenAllThrows ==
    /\ active # NoDoc
    /\ ScanThrows(active)
    /\ Elsewhere
    /\ UNCHANGED <<docText, docVersion, docOpen, active, debouncedTimeouts,
                   timers, inlineMode>>

\* command xi.toggleInlineMode
ToggleInlineMode ==
    /\ inlineMode' = ~inlineMode
    /\ IF active # NoDoc /\ ~inlineMode
       THEN CallScan(active, "command")
       ELSE NoScan(active)
    /\ Elsewhere
    /\ UNCHANGED <<docText, docVersion, docOpen, active, debouncedTimeouts,
                   timers>>

CloseKeysEditorOnly(d) == {Key("editor", d)}
\* the debounce keys the close handler cancels
CloseKeys(d) == {Key("editor", d), Key("change", d)}

\* onDidCloseTextDocument
Close(d) ==
    /\ docOpen[d]
    /\ d # active
    /\ docOpen' = [docOpen EXCEPT ![d] = FALSE]
    /\ documentCache' = MapDelete(documentCache, d)
    /\ lastIndexedVersionMap' = [lastIndexedVersionMap EXCEPT ![d] = Null]
    /\ timers' = {t \in timers :
                    ~(t.key \in CloseKeys(d) /\ debouncedTimeouts[t.key] = t.id)}
    /\ debouncedTimeouts' =
           [k \in TimerKeys |->
               IF k \in CloseKeys(d) THEN Null ELSE debouncedTimeouts[k]]
    /\ last' = [Ran("close", d) EXCEPT
                   !.cancelled = {k \in TimerKeys : debouncedTimeouts[k] # Null
                                                    /\ k.doc = d}]
    /\ doneData' = [doneData EXCEPT ![d] = None]
    /\ Elsewhere
    /\ UNCHANGED <<docText, docVersion, active, xmlIndexerData, inflight,
                   recency, inlineMode>>

CancelNone(ts, ids) == ts
\* `debouncedTimeouts.forEach((timeout) => clearTimeout(timeout))`: the timers
\* left in the host
CancelAll(ts, ids) == {t \in ts : \A k \in TimerKeys : ids[k] # t.id}

\* deactivate(): the Maps are cleared and the debounce timers cancelled; a
\* suspended scanLargeDocument is not touched
Deactivate ==
    /\ documentCache' = <<>>
    /\ timers' = CancelAll(timers, debouncedTimeouts)
    /\ debouncedTimeouts' = [k \in TimerKeys |-> Null]
    /\ lastIndexedVersionMap' = [d \in Docs |-> Null]
    /\ xmlIndexerData' = [d \in Docs |-> None]
    /\ last' = [Ran("deactivate", NoDoc) EXCEPT
                   !.cancelled = {k \in TimerKeys : debouncedTimeouts[k] # Null}]
    /\ doneData' = [d \in Docs |-> None]
    /\ recency' = <<>>
    /\ Elsewhere
    /\ UNCHANGED <<docText, docVersion, docOpen, active, inflight, inlineMode>>

\* the timer of a suspended scanLargeDocument fires: the loop continues to
\* its next suspension, or ends and processAndCacheResults stores the result
Resume ==
    /\ inflight # <<>>
    \* (each value is bound once: the chunks of a step are run once)
    /\ \E s \in {Head(inflight)} :
       \E r \in {RunChunks(s.text, s.start, s.data, s.globalId)} :
       IF ~r.done
       THEN /\ inflight' = Append(Tail(inflight),
                   [s EXCEPT !.start = r.start, !.data = r.data,
                             !.globalId = r.globalId])
            /\ last' = Ran("other", s.doc)
            /\ UNCHANGED <<documentCache, lastIndexedVersionMap,
                           xmlIndexerData, doneData, recency>>
       ELSE \E processedData \in {ProcessedData(r.data)} :
            \E cache1 \in {MapSet(documentCache, s.doc, processedData)} :
            /\ inflight' = Tail(inflight)
            /\ documentCache' = CacheAfter(s.caller, cache1)
            /\ lastIndexedVersionMap' =
                   VersionsAfter(s.caller, cache1, lastIndexedVersionMap)
            /\ xmlIndexerData' =
                   StoreGlobal(xmlIndexerData, s.doc, processedData)
            /\ last' = [Ran("commit", s.doc) EXCEPT
                           !.evicted = Evicted(s.caller, cache1),
                           !.data = Some(processedData)]
            /\ doneData' = IF s.ver = docVersion[s.doc] /\ docOpen[s.doc]
                           THEN [doneData EXCEPT ![s.doc] = Some(processedData)]
                           ELSE doneData
            /\ recency' = Touch(recency, s.doc)
    /\ Elsewhere
    /\ UNCHANGED <<docText, docVersion, docOpen, active, debouncedTimeouts,
                   timers, inlineMode>>

----------------------------------------------------------------------------
(* Specifications *)

\* the identifiers registerCommands passes to vscode.commands.registerCommand,
\* in source order
CommandIds ==
    <<"xi.toggleInlineMode", "xi.toggleSidebarMode", "xi.toggleAnnotationMode",
      "xi.toggleNumberMode", "xi.indexChildrenAll", "xi.closeAllModes",
      "xi.revealIndexedLine", "xi.toggleViewportMode", "xi.toggleCursorMode",
      "xi.toggleInlineMode", "xi.toggleAnnotationMode">>

\* the listeners registerEventHandlers installs
EventHandlers == {"onDidChangeTextEditorVisibleRanges",
                  "onDidChangeTextEditorSelection"}

\* the listeners activate installs itself after the initial indexing
ActivateHandlers == {"onDidChangeActiveTextEditor",
                     "onDidChangeTextEditorVisibleRanges",
                     "onDidChangeTextEditorSelection"}

\* the host before activate() runs
NotActivated == [commands |-> {}, listeners |-> {}, state |-> "inactive"]

\* registerCommands(context) from its i-th registration on: the host's
\* registerCommand throws on an identifier it already holds
RECURSIVE registerCommands(_, _)
registerCommands(i, commands) ==
    IF i > Len(CommandIds)
    THEN [commands |-> commands, threw |-> FALSE]
    ELSE IF CommandIds[i] \in commands
         THEN [commands |-> commands, threw |-> TRUE]
         ELSE registerCommands(i + 1, commands \cup {CommandIds[i]})

\* activate(context): one try block around registerCommands,
\* registerEventHandlers and the listeners; its catch reports the error
activate(h) ==
    LET r == registerCommands(1, h.commands)
    IN  IF r.threw
        THEN [commands |-> r.commands, listeners |-> h.listeners,
              state |-> "failed"]
        ELSE [commands |-> r.commands,
              listeners |-> h.listeners \cup EventHandlers
                               \cup ActivateHandlers,
              state |-> "active"]

\* activate() has run
Activated == host = activate(NotActivated)


\* the state after activate(): every Map empty, no editor active
\* no edit timer of utils/events.js is pending and nothing was indexed by it
IdleEvents ==
    /\ updateTimeout = Null
    /\ updateTimers = {}
    /\ lastIndexedData = <<>>

NoQuery ==
    [op |-> "none", before |-> <<FALSE, FALSE>>, enabled |-> FALSE,
     index |-> <<>>,
     text |-> <<>>, cursorMode |-> FALSE, viewportMode |-> FALSE,
     cursorLine |-> 0, ranges |-> {}, failing |-> {}, hit |-> None,
     entries |-> <<>>, positions |-> <<>>, threw |-> FALSE]

\* both filters are off and no query has run
IdleQuery ==
    /\ viewportMode = FALSE
    /\ cursorMode = FALSE
    /\ annotationMode = FALSE
    /\ cursorLine = 0
    /\ visibleRanges = {}
    /\ shown = NoQuery
    /\ heap = <<>>
    /\ heapTraced = FALSE

Init ==
    /\ docText = [d \in Docs |-> ScenarioText]
    /\ docVersion = [d \in Docs |-> 1]
    /\ docOpen = [d \in Docs |-> FALSE]
    /\ active = NoDoc
    /\ documentCache = <<>>
    /\ lastIndexedVersionMap = [d \in Docs |-> Null]
    /\ xmlIndexerData = [d \in Docs |-> None]
    /\ debouncedTimeouts = [k \in TimerKeys |-> Null]
    /\ timers = {}
    /\ inflight = <<>>
    /\ doneData = [d \in Docs |-> None]
    /\ recency = <<>>
    /\ last = Ran("init", NoDoc)
    /\ inlineMode = FALSE
    /\ tokenTypeField \in BOOLEAN
    /\ Activated
    /\ IdleEvents
    /\ IdleQuery

\* Concurrency: one document is opened, edited, saved, scanned (chunked when
\* its text is large) and closed
Next ==
    \/ \E d \in EditedDocs, t \in EditTexts : Edit(d, t)
    \/ \E d \in EditedDocs : SetActive(d)
    \/ \E t \in timers : TimerFire(t)
    \/ \E d \in EditedDocs : Save(d)
    \/ CloseEditor
    \/ \E d \in EditedDocs : Close(d)
    \/ Resume

Spec == Init /\ [][Next]_vars

\* the texts above the threshold an edit can leave in a document
LargeTexts == {t \in EditTexts : IsLarge(t)}

\* Liveness: one open document holding a large text is scanned, rescanned,
\* edited and closed while its scans are suspended
InitLive ==
    /\ docText \in {[d \in Docs |-> IF d = 1 THEN t ELSE ScenarioText] :
                       t \in LargeTexts}
    /\ docVersion = [d \in Docs |-> 1]
    /\ docOpen = [d \in Docs |-> d = 1]
    /\ active = 1
    /\ documentCache = <<>>
    /\ lastIndexedVersionMap = [d \in Docs |-> Null]
    /\ xmlIndexerData = [d \in Docs |-> None]
    /\ debouncedTimeouts = [k \in TimerKeys |-> Null]
    /\ timers = {}
    /\ inflight = <<>>
    /\ doneData = [d \in Docs |-> None]
    /\ recency = <<>>
    /\ last = Ran("init", NoDoc)
    /\ inlineMode = FALSE
    /\ tokenTypeField = TRUE
    /\ Activated
    /\ IdleEvents
    /\ IdleQuery

\* an edit that leaves a large text
EditLarge == \E d \in EditedDocs, t \in LargeTexts : Edit(d, t)

NextLive ==
    \/ IndexChildrenAll
    \/ EditLarge
    \/ CloseEditor
    \/ \E d \in EditedDocs : Close(d)
    \/ Resume

\* the timer of every await of scanLargeDocument fires (`setTimeout(r, 1)`),
\* so a suspended scan is resumed
SpecLive == InitLive /\ [][NextLive]_vars /\ WF_vars(Resume)

\* the small texts an edit leaves in a document of the cache specification
SmallTexts == {ScenarioText, <<SelfTag(TagA)>>}

\* Cache: NumDocs small documents are opened one after the other (each is
\* named by its place in the order of first opening, and every debounce
\* delay elapses before the next editor switch or edit), scanned by
\* doIndexDisplay and by the commands; the first one is also edited
OpenNext(d) ==
    /\ timers = {}
    /\ \A e \in 1..(d - 1) : docOpen[e]
    /\ SetActive(d)

QuietEdit(d, t) ==
    /\ timers = {}
    /\ Edit(d, t)

NextCache ==
    \/ \E d \in Docs : OpenNext(d)
    \/ \E t \in timers : TimerFire(t)
    \/ \E d \in EditedDocs, t \in SmallTexts : QuietEdit(d, t)
    \/ IndexChildrenAll
    \/ ToggleInlineMode

SpecCache == Init /\ [][NextCache]_vars

\* Scanner: one open document holding any input text is scanned
InitScan ==
    /\ docText \in {[d \in Docs |-> IF d = 1 THEN t ELSE ScenarioText] :
                       t \in ScanTexts}
    /\ docVersion = [d \in Docs |-> 1]
    /\ docOpen = [d \in Docs |-> d = 1]
    /\ active = 1
    /\ documentCache = <<>>
    /\ lastIndexedVersionMap = [d \in Docs |-> Null]
    /\ xmlIndexerData = [d \in Docs |-> None]
    /\ debouncedTimeouts = [k \in TimerKeys |-> Null]
    /\ timers = {}
    /\ inflight = <<>>
    /\ doneData = [d \in Docs |-> None]
    /\ recency = <<>>
    /\ last = Ran("init", NoDoc)
    /\ inlineMode = FALSE
    /\ tokenTypeField \in BOOLEAN
    /\ Activated
    /\ IdleEvents
    /\ IdleQuery

\* the command is given while no scan is suspended
IndexChildrenAllIdle ==
    /\ inflight = <<>>
    /\ IndexChildrenAll

NextScan ==
    \/ IndexChildrenAllIdle
    \/ Resume

SpecScan == InitScan /\ [][NextScan]_vars

\* the texts below the threshold an edit leaves in the failure specification
ThrowTexts == {t \in InputTexts : Len(t) <= 1} \cup {ScenarioText}

\* Failure: one open document below the threshold is edited and scanned, and
\* the parser, a dependency, throws in some of the scans
InitThrow ==
    /\ docText \in {[d \in Docs |-> IF d = 1 THEN t ELSE ScenarioText] :
                       t \in ThrowTexts}
    /\ docVersion = [d \in Docs |-> 1]
    /\ docOpen = [d \in Docs |-> d = 1]
    /\ active = 1
    /\ documentCache = <<>>
    /\ lastIndexedVersionMap = [d \in Docs |-> Null]
    /\ xmlIndexerData = [d \in Docs |-> None]
    /\ debouncedTimeouts = [k \in TimerKeys |-> Null]
    /\ timers = {}
    /\ inflight = <<>>
    /\ doneData = [d \in Docs |-> None]
    /\ recency = <<>>
    /\ last = Ran("init", NoDoc)
    /\ inlineMode = FALSE
    /\ tokenTypeField = TRUE
    /\ Activated
    /\ IdleEvents
    /\ IdleQuery

NextThrow ==
    \/ \E d \in EditedDocs, t \in ThrowTexts : Edit(d, t)
    \/ \E t \in timers : TimerFire(t)
    \/ \E t \in timers : TimerFireThrows(t)
    \/ IndexChildrenAll
    \/ IndexChildrenAllThrows

SpecThrow == InitThrow /\ [][NextThrow]_vars

\* the documents shown in turn by the editor of the switching specification
SwitchDocs == {1, 2}

\* Switching: two small documents are shown in turn, the first one is
\* edited, and the debounce timers fire at any later time
NextSwitch ==
    \/ \E d \in SwitchDocs : SetActive(d)
    \/ \E d \in EditedDocs, t \in SmallTexts : Edit(d, t)
    \/ \E t \in timers : TimerFire(t)

SpecSwitch == Init /\ [][NextSwitch]_vars

\* Teardown: a document is shown, edited and scanned, the extension is
\* deactivated at any time, and what was suspended or is done in the editor
\* afterwards (by the extension activated again) goes on
NextTeardown ==
    \/ \E d \in EditedDocs : SetActive(d)
    \/ \E d \in EditedDocs, t \in EditTexts : Edit(d, t)
    \/ \E t \in timers : TimerFire(t)
    \/ ToggleInlineMode
    \/ Resume
    \/ Deactivate

SpecTeardown == Init /\ [][NextTeardown]_vars

----------------------------------------------------------------------------
(* utils/indexer.js and utils/events.js: the modules' own scanner and
   edit handler *)

\* utils/indexer.js scanDocumentForTags: the regular expression matches the
\* opening tags only; `index` counts the matches of the same tag so far
RECURSIVE IndexerMatches(_, _, _)
IndexerMatches(text, i, acc) ==
    IF i > Len(text) THEN acc
    ELSE IF text[i].kind # "open" THEN IndexerMatches(text, i + 1, acc)
    ELSE LET tag == text[i].tag
             offset == OffsetOf(text, i)
             index == Cardinality({j \in 1..Len(acc) : acc[j].tag = tag}) + 1
         IN IndexerMatches(text, i + 1,
                Append(acc, [tag |-> tag, index |-> index, offset |-> offset,
                             line |-> LinesBefore(text, offset),
                             sequence |-> Len(acc) + 1]))

\* utils/events.js doIndexDisplay: without an active editor nothing is
\* scanned
EventsIndexDisplay(a) ==
    lastIndexedData' = IF a = NoDoc THEN lastIndexedData
                       ELSE IndexerMatches(docText[a], 1, <<>>)

eventsFrame == <<documentCache, lastIndexedVersionMap, xmlIndexerData,
                 debouncedTimeouts, timers, inflight, doneData, recency,
                 inlineMode, tokenTypeField, queryVars, heap, heapTraced,
                 host>>

\* the module's own `function clearTimeout() {}`, which the handler's call
\* `clearTimeout()` resolves to: the pending timers stay
clearTimeout(pending) == pending

\* onDidChangeTextDocument of utils/events.js (setTimeout's ids grow by one)
EventsEdit(d, t) ==
    /\ active = d
    /\ t # docText[d]
    /\ updateTimeout < MaxTimers
    /\ docText' = [docText EXCEPT ![d] = t]
    /\ docVersion' = [docVersion EXCEPT ![d] = @ + 1]
    /\ updateTimeout' = updateTimeout + 1
    /\ updateTimers' = (IF updateTimeout # Null THEN clearTimeout(updateTimers)
                        ELSE updateTimers) \cup {updateTimeout + 1}
    /\ last' = Ran("other", d)
    /\ UNCHANGED <<docOpen, active, lastIndexedData, eventsFrame>>

\* a timer started by the edit handler fires
EventsTimerFire(id) ==
    /\ id \in updateTimers
    /\ updateTimers' = updateTimers \ {id}
    /\ EventsIndexDisplay(active)
    /\ last' = Ran("rescan", active)
    /\ UNCHANGED <<docText, docVersion, docOpen, active, updateTimeout,
                   eventsFrame>>

\* onDidChangeActiveTextEditor of utils/events.js
EventsSetActive(d) ==
    /\ d # active
    /\ active' = d
    /\ docOpen' = IF d = NoDoc THEN docOpen ELSE [docOpen EXCEPT ![d] = TRUE]
    /\ EventsIndexDisplay(d)
    /\ last' = Ran("other", d)
    /\ UNCHANGED <<docText, docVersion, updateTimeout, updateTimers,
                   eventsFrame>>

\* onDidSaveTextDocument of utils/events.js
EventsSave(d) ==
    /\ active = d
    /\ EventsIndexDisplay(d)
    /\ last' = Ran("other", d)
    /\ UNCHANGED <<docText, docVersion, docOpen, active, updateTimeout,
                   updateTimers, eventsFrame>>

\* Events: two documents are shown, edited and saved under the handlers of
\* utils/events.js
EventsDocs == {1, 2}

NextEvents ==
    \/ \E d \in EventsDocs, t \in EditTexts : EventsEdit(d, t)
    \/ \E id \in updateTimers : EventsTimerFire(id)
    \/ \E d \in EventsDocs \cup {NoDoc} : EventsSetActive(d)
    \/ \E d \in EventsDocs : EventsSave(d)

SpecEvents == Init /\ [][NextEvents]_vars

----------------------------------------------------------------------------
(* Queries on a stored index: inline decorations and CodeLenses *)

Position(line, character) == [line |-> line, character |-> character]

\* the offset at which the line holding `offset` starts
LineStart(text, offset) ==
    LET starts == {OffsetOf(text, j) + 1 : j \in
                      {k \in 1..Len(text) : text[k].kind = "nl"
                                            /\ OffsetOf(text, k) < offset}}
    IN IF starts = {} THEN 0
       ELSE CHOOSE o \in starts : \A u \in starts : u <= o

\* document.positionAt(offset), which adjusts an offset past the end
positionAt(text, offset) ==
    LET o == Min(offset, TextLength(text)) IN
    Position(LinesBefore(text, o), o - LineStart(text, o))

\* the offset at which line `line` ends (the end of the text for the last)
LineEnd(text, line) ==
    LET ends == {OffsetOf(text, j) : j \in
                    {k \in 1..Len(text) : text[k].kind = "nl"}}
        at == {o \in ends : Cardinality({u \in ends : u < o}) = line}
    IN IF at = {} THEN TextLength(text) ELSE CHOOSE o \in at : TRUE

\* a visible range: the lines firstLine..lastLine of the document, whole
LinesRange(text, firstLine, lastLine) ==
    [start |-> Position(firstLine, 0),
     end |-> positionAt(text, LineEnd(text, lastLine))]

\* editor.visibleRanges of an editor showing `text` with the lines of
\* `shownLines` (pairs of a first and a last line) on screen
EditorRanges(text, shownLines) ==
    {LinesRange(text, r[1], r[2]) : r \in shownLines}

Before(p, q) ==
    p.line < q.line \/ (p.line = q.line /\ p.character < q.character)

\* range.contains(pos)
contains(range, pos) == ~Before(pos, range.start) /\ ~Before(range.end, pos)

\* isEntryInView(editor, entry)
isEntryInView(text, ranges, entry) ==
    \E range \in ranges : contains(range, positionAt(text, entry.offset))

\* getEntryAtCursor(editor, entries): entries.find(...), None when undefined
getEntryAtCursorLast(line, entries) ==
    LET found == {i \in 1..Len(entries) :
                     entries[i].line = line /\ entries[i].needsIndexing}
    IN IF found = {} THEN None
       ELSE Some(entries[CHOOSE i \in found : \A j \in found : j <= i])
getEntryAtCursor(line, entries) ==
    LET found == {i \in 1..Len(entries) :
                     entries[i].line = line /\ entries[i].needsIndexing}
    IN IF found = {} THEN None
       ELSE Some(entries[CHOOSE i \in found : \A j \in found : i <= j])

\* getIndexedDataForDocument(document) on the Map `data`
getIndexedDataForDocument(data, d) ==
    IF d = NoDoc \/ data[d] = None THEN <<>> ELSE data[d][1]

\* `.filter(e => e.needsIndexing)`
Indexable(index) == SelectSeq(index, LAMBDA e : e.needsIndexing)

\* the length of text.slice(offset).match(/^<[^>]*>/)[0], 0 without a match
SnippetLength(text, offset) ==
    LET at == {i \in 1..Len(text) :
                  IsTag(text[i]) /\ OffsetOf(text, i) = offset}
    IN IF at = {} THEN 0 ELSE text[CHOOSE i \in at : TRUE].n

\* the cursor and viewport filters of applyInlineDecorations and
\* provideCodeLenses
Filtered(text, index, cur, vp, line, ranges) ==
    LET hit == getEntryAtCursor(line, Indexable(index)) IN
    IF cur THEN hit
    ELSE IF vp
    THEN SelectSeq(Indexable(index),
                   LAMBDA e : isEntryInView(text, ranges, e))
    ELSE Indexable(index)

\* whether a filter's own positionAt calls fail (positionAt fails at the
\* offsets in `failing`)
FilterThrows(index, cur, vp, failing) ==
    ~cur /\ vp /\ \E i \in 1..Len(index) :
                      index[i].needsIndexing /\ index[i].offset \in failing

\* where applyInlineDecorations puts the decoration of an entry
DecorationOffset(text, e) == e.offset + SnippetLength(text, e.offset)

DecorationPosition(text, e) ==
    IF SnippetLength(text, e.offset) > 0
    THEN positionAt(text, DecorationOffset(text, e))
    ELSE Position(e.line, 0)

\* applyInlineDecorations(editor, inlineModeEnabled, ...): what it hands to
\* setDecorations, or that it threw before reaching it
Decorate(op, before, enabled, text, index, cur, vp, line, ranges, failing) ==
    LET entries == Filtered(text, index, cur, vp, line, ranges)
        threw == \/ FilterThrows(index, cur, vp, failing)
                 \/ \E i \in 1..Len(entries) :
                        /\ SnippetLength(text, entries[i].offset) > 0
                        /\ DecorationOffset(text, entries[i]) \in failing
    IN
    [op |-> op, before |-> before, enabled |-> enabled, index |-> index,
     text |-> text, cursorMode |-> cur, viewportMode |-> vp,
     cursorLine |-> line, ranges |-> ranges, failing |-> failing,
     hit |-> IF enabled /\ cur THEN getEntryAtCursor(line, Indexable(index))
             ELSE None,
     entries |-> IF enabled /\ ~threw THEN entries ELSE <<>>,
     positions |-> IF enabled /\ ~threw
                   THEN [i \in 1..Len(entries) |->
                            DecorationPosition(text, entries[i])]
                   ELSE <<>>,
     threw |-> enabled /\ threw]

\* the loop of provideCodeLenses: one lens for each line, at the first entry
\* of the line
FirstOfLine(entries) ==
    SelectSeq([i \in 1..Len(entries) |-> [at |-> i, e |-> entries[i]]],
              LAMBDA x : \A j \in 1..(x.at - 1) :
                             entries[j].line # x.e.line)

\* provideCodeLenses(document, token)
Lenses(enabled, text, index, cur, vp, line, ranges, failing) ==
    LET entries == Filtered(text, index, cur, vp, line, ranges)
        lensed == [i \in 1..Len(FirstOfLine(entries)) |->
                      FirstOfLine(entries)[i].e]
        threw == \/ FilterThrows(index, cur, vp, failing)
                 \/ \E i \in 1..Len(lensed) : lensed[i].offset \in failing
    IN
    [op |-> "lens", before |-> <<vp, cur>>, enabled |-> enabled,
     index |-> index, text |-> text, cursorMode |-> cur,
     viewportMode |-> vp, cursorLine |-> line, ranges |-> ranges,
     failing |-> failing,
     hit |-> IF enabled /\ cur THEN getEntryAtCursor(line, Indexable(index))
             ELSE None,
     entries |-> IF enabled /\ ~threw THEN lensed ELSE <<>>,
     positions |-> IF enabled /\ ~threw
                   THEN [i \in 1..Len(lensed) |->
                            positionAt(text, lensed[i].offset)]
                   ELSE <<>>,
     threw |-> enabled /\ threw]

\* `if (val) setCursorMode(false)` and `if (val) setViewportMode(false)` of
\* the two toggle commands
OtherModeKept(val, other) == other
OtherModeAfter(val, other) == IF val THEN FALSE ELSE other

queryFrame == <<docText, docVersion, docOpen, active, debouncedTimeouts,
                timers, inlineMode, tokenTypeField, heapTraced, host,
                eventsVars>>

storeVars == <<documentCache, lastIndexedVersionMap, xmlIndexerData,
               inflight, doneData, recency, last, heap>>

\* refreshAll() after a command set the two flags to vp and cur
RefreshAll(op, vp, cur, failing) ==
    shown' = IF active = NoDoc
             THEN [NoQuery EXCEPT !.op = op,
                                  !.before = <<viewportMode, cursorMode>>]
             ELSE Decorate(op, <<viewportMode, cursorMode>>, inlineMode,
                           docText[active],
                           getIndexedDataForDocument(xmlIndexerData', active),
                           cur, vp, cursorLine',
                           EditorRanges(docText[active], visibleRanges'),
                           failing)

\* command xi.toggleViewportMode
ToggleViewportMode(failing) ==
    LET val == ~viewportMode IN
    /\ viewportMode' = val
    /\ cursorMode' = OtherModeAfter(val, cursorMode)
    /\ UNCHANGED <<annotationMode, cursorLine, visibleRanges, storeVars,
                   queryFrame>>
    /\ RefreshAll("toggleViewport", val, cursorMode', failing)

\* command xi.toggleCursorMode
ToggleCursorMode(failing) ==
    LET val == ~cursorMode IN
    /\ cursorMode' = val
    /\ viewportMode' = OtherModeAfter(val, viewportMode)
    /\ UNCHANGED <<annotationMode, cursorLine, visibleRanges, storeVars,
                   queryFrame>>
    /\ RefreshAll("toggleCursor", viewportMode', val, failing)

\* the two onDidChangeTextEditorSelection handlers, for a move of the cursor
\* in the active editor: the first rescans (a text below the threshold is
\* scanned in one step) and refreshes, the second refreshes
SelectionChanged(line, failing) ==
    /\ active # NoDoc
    /\ line # cursorLine
    /\ cursorLine' = line
    /\ IF cursorMode /\ inlineMode
       THEN /\ ~IsLarge(docText[active])
            /\ CallScan(active, "handler")
       ELSE NoScan(active)
    /\ heap' = HeapAfter
    /\ UNCHANGED <<viewportMode, cursorMode, annotationMode, visibleRanges,
                   queryFrame>>
    /\ IF cursorMode
       THEN RefreshAll("selection", viewportMode, cursorMode, failing)
       ELSE shown' = shown

\* the onDidChangeTextEditorVisibleRanges handler, for the active editor
VisibleRangesChanged(ranges, failing) ==
    /\ active # NoDoc
    /\ ranges # visibleRanges
    /\ visibleRanges' = ranges
    /\ IF viewportMode /\ inlineMode
       THEN /\ ~IsLarge(docText[active])
            /\ CallScan(active, "handler")
       ELSE NoScan(active)
    /\ heap' = HeapAfter
    /\ UNCHANGED <<viewportMode, cursorMode, annotationMode, cursorLine,
                   queryFrame>>
    /\ IF viewportMode /\ inlineMode
       THEN RefreshAll("visibleRanges", viewportMode, cursorMode, failing)
       ELSE shown' = shown

\* the host asks the CodeLens provider for the lenses of the active document
ProvideCodeLenses(failing) ==
    /\ active # NoDoc
    /\ shown' = Lenses(annotationMode, docText[active],
                       getIndexedDataForDocument(xmlIndexerData, active),
                       cursorMode, viewportMode, cursorLine,
                       EditorRanges(docText[active], visibleRanges),
                       failing)
    /\ UNCHANGED <<viewportMode, cursorMode, annotationMode, cursorLine,
                   visibleRanges, storeVars, queryFrame>>

\* the texts of the query specification: qualifying occurrences on one
\* line, after a line without one, and on two lines
QueryTexts ==
    {ScenarioText, <<SelfTag(TagA), NewLine, SelfTag(TagB), SelfTag(TagB)>>}
OtherText == <<SelfTag(TagB), NewLine, SelfTag(TagB)>>

QueryDocs == {1, 2}
QueryLines == 0..MaxLine

\* the lines on screen: the first line, or every line as a range of its own
ShownLines == {{<<0, 0>>}, {<<l, l>> : l \in QueryLines}}

\* the offsets at which positionAt may be made to fail: none, or where the
\* last self-closing tag of the text starts
FailingSets(text) ==
    LET selfs == {k \in 1..Len(text) : text[k].kind = "self"} IN
    {{}} \cup {{OffsetOf(text, i)} :
                  i \in {k \in selfs : \A j \in selfs : j <= k}}

ActiveText == IF active = NoDoc THEN <<>> ELSE docText[active]

\* Query: two documents are shown in turn with inline and annotation mode
\* on (the parser's tokens carry tokenType), the cursor and the visible
\* ranges move, the two filter modes are toggled and the CodeLens provider
\* is asked
InitQuery ==
    /\ docText \in {[d \in Docs |-> IF d = 1 THEN t ELSE OtherText] :
                       t \in QueryTexts}
    /\ docVersion = [d \in Docs |-> 1]
    /\ docOpen = [d \in Docs |-> FALSE]
    /\ active = NoDoc
    /\ documentCache = <<>>
    /\ lastIndexedVersionMap = [d \in Docs |-> Null]
    /\ xmlIndexerData = [d \in Docs |-> None]
    /\ debouncedTimeouts = [k \in TimerKeys |-> Null]
    /\ timers = {}
    /\ inflight = <<>>
    /\ doneData = [d \in Docs |-> None]
    /\ recency = <<>>
    /\ last = Ran("init", NoDoc)
    /\ inlineMode = TRUE
    /\ tokenTypeField = TRUE
    /\ Activated
    /\ IdleEvents
    /\ viewportMode \in BOOLEAN
    /\ cursorMode \in BOOLEAN
    /\ ~(viewportMode /\ cursorMode)
    /\ annotationMode = TRUE
    /\ cursorLine = 0
    /\ visibleRanges = {}
    /\ shown = NoQuery
    /\ heap = <<>>
    /\ heapTraced = TRUE

NextQuery ==
    \/ \E d \in QueryDocs : OpenNext(d)
    \/ \E t \in timers : TimerFire(t)
    \/ \E f \in FailingSets(ActiveText) : ToggleViewportMode(f)
    \/ \E f \in FailingSets(ActiveText) : ToggleCursorMode(f)
    \/ \E l \in QueryLines, f \in FailingSets(ActiveText) :
          SelectionChanged(l, f)
    \/ \E r \in ShownLines, f \in FailingSets(ActiveText) :
          VisibleRangesChanged(r, f)
    \/ \E f \in FailingSets(ActiveText) : ProvideCodeLenses(f)

SpecQuery == InitQuery /\ [][NextQuery]_vars

----------------------------------------------------------------------------
(* Properties *)

Indexed(d) == xmlIndexerData[d] # None

\* C1: version fence.  Once a scan of D's current version has completed, the
\* entries documentCache and xmlIndexerData hold for D are that scan's
\* result: a scan of an older version that finishes later does not replace it.
C1_VersionFence ==
    \A d \in Docs :
        (doneData[d] # None /\ MapHas(documentCache, d)) =>
            /\ MapGet(documentCache, d) = doneData[d][1]
            /\ xmlIndexerData[d] = doneData[d]

\* C2: version-gated cache hit.  A scanDocumentForTags call that returns the
\* cached index without scanning returns the index of the text the document
\* holds at the call.
C2_VersionGatedHit ==
    (last.op = "call" /\ last.hit) =>
        last.data = Some(ScanResult(docText[last.doc]))

\* C3: re-scanning an unchanged document is a cache hit.  A call made after a
\* scan of the document's current version has completed does not scan again
\* and returns the index that scan produced.
C3_RescanIsHit ==
    (last.op = "call" /\ last.prev # None) =>
        (last.hit /\ last.data = last.prev)

Rank(rec, d) == CHOOSE i \in 1..Len(rec) : rec[i] = d

\* C4: eviction is least-recently-used.  Every document cleanupMemory evicts
\* was scanned less recently than every document it keeps.
C4_EvictsLeastRecent ==
    \A d \in last.evicted : \A e \in MapKeys(documentCache) :
        Rank(recency, d) < Rank(recency, e)

\* C5: capacity is restored as part of every put.  After every handler
\* documentCache holds at most MAX_CACHE_SIZE documents.
C5_Capacity == Len(documentCache) <= MAX_CACHE_SIZE

C7_IndexDeleted ==
    /\ last.op = "close" => ~Indexed(last.doc)
    /\ \A d \in last.evicted : ~Indexed(d)
    /\ Cardinality({d \in Docs : Indexed(d)}) <= MAX_CACHE_SIZE

\* the sibling group of occurrence i: same parentKey and same tag
Group(index, i) ==
    {j \in 1..Len(index) :
        index[j].parentKey = index[i].parentKey /\ index[j].tag = index[i].tag}

GroupsOrdered(index) ==
    \A i \in 1..Len(index) :
        LET g == Group(index, i) IN
        /\ index[i].siblingCount = Cardinality(g)
        /\ {index[j].orderInTag : j \in g} = 1..index[i].siblingCount
        /\ \A j, k \in g : j < k => index[j].orderInTag < index[k].orderInTag
        /\ (index[i].needsIndexing = FALSE) <=> (index[i].siblingCount = 1)

\* C8: in every index processAndCacheResults stores, the orderInTag values of
\* a sibling group are exactly 1..siblingCount in document order,
\* siblingCount is the size of the group, and needsIndexing is false exactly
\* when siblingCount is 1.
C8_SiblingGroups ==
    \A e \in 1..Len(documentCache) : GroupsOrdered(documentCache[e].val)

\* C8 witness: a stored index with a group of two under a parent, a group of
\* one, and the same tag in two different groups
C8_Witness ==
    \E e \in 1..Len(documentCache) :
        LET index == documentCache[e].val IN
        \E i, j, k \in 1..Len(index) :
            /\ index[i].siblingCount = 2 /\ index[i].parent # Null
            /\ index[j].siblingCount = 1
            /\ index[k].tag = index[i].tag /\ index[k].parent # index[i].parent

\* open tags minus closing tags among items i..j
RECURSIVE Balance(_, _, _)
Balance(text, i, j) ==
    IF i > j THEN 0
    ELSE (CASE text[j].kind = "open" -> 1
            [] text[j].kind = "close" -> -1
            [] OTHER -> 0) + Balance(text, i, j - 1)

\* the opening tag at i is still open before item k
OpenAt(text, i, k) ==
    /\ i < k
    /\ text[i].kind = "open"
    /\ \A j \in i..(k - 1) : Balance(text, i, j) > 0

\* every closing tag closes the innermost open tag, which has its name, and
\* every opening tag is closed
WellFormed(text) ==
    /\ Balance(text, 1, Len(text)) = 0
    /\ \A k \in 1..Len(text) : text[k].kind = "close" =>
          \E i \in 1..(k - 1) :
              /\ OpenAt(text, i, k)
              /\ \A j \in (i + 1)..(k - 1) : ~OpenAt(text, j, k)
              /\ text[i].tag = text[k].tag

\* the id of the tag at item i: its place among the opening and self-closing tags
IdOf(text, i) ==
    Cardinality({j \in 1..i : text[j].kind \in {"open", "self"}})

\* the id of the innermost tag open before item k, or ROOT
InnermostOpen(text, k) ==
    IF \E i \in 1..(k - 1) : OpenAt(text, i, k)
    THEN IdOf(text, CHOOSE i \in 1..(k - 1) :
                        /\ OpenAt(text, i, k)
                        /\ \A j \in (i + 1)..(k - 1) : ~OpenAt(text, j, k))
    ELSE Null

ParentsAreInnermost(text, index) ==
    /\ Len(index) = IdOf(text, Len(text))
    /\ \A k \in 1..Len(text) : text[k].kind \in {"open", "self"} =>
          /\ index[IdOf(text, k)].tag = text[k].tag
          /\ index[IdOf(text, k)].parent = InnermostOpen(text, k)

\* C9: for a well-formed, properly nested text below the large-file
\* threshold, every opening and self-closing tag is recorded and its parent
\* is the id of the innermost tag still open at its offset, or ROOT: an
\* opening tag is pushed, a self-closing tag is not, a closing tag pops.
C9_ParentIsInnermostOpen ==
    \A d \in Docs :
        (last.op = "call" /\ last.doc = d /\ ~last.hit
            /\ WellFormed(docText[d]) /\ ~IsLarge(docText[d])) =>
            ParentsAreInnermost(docText[d], last.data[1])

Fields(e) == <<e.tag, e.siblingCount, e.orderInTag, e.needsIndexing>>

\* C10: a scan of <a><b/><b/><c/></a> returns four occurrences in document
\* order: a (group of 1, not flagged), b (1 of 2, flagged), b (2 of 2,
\* flagged), c (group of 1, not flagged).
C10_Scenario ==
    (last.op = "call" /\ docText[last.doc] = ScenarioText) =>
        /\ last.data # None
        /\ [i \in 1..Len(last.data[1]) |-> Fields(last.data[1][i])] =
              << <<TagA, 1, 1, FALSE>>, <<TagB, 2, 1, TRUE>>,
                 <<TagB, 2, 2, TRUE>>, <<TagC, 1, 1, FALSE>> >>
        /\ \A i \in 1..3 : last.data[1][i].offset < last.data[1][i + 1].offset

\* C10 witness: the text has been scanned
C10_Witness ==
    /\ last.op = "call" /\ ~last.hit
    /\ docText[last.doc] = ScenarioText

\* the stored indexes with the text they were scanned from (no edit happens
\* under SpecScan, so the text of a cached document is the text scanned)
StoredIndexes ==
    {[text |-> docText[documentCache[e].key], index |-> documentCache[e].val] :
        e \in 1..Len(documentCache)}

\* C11: within one stored index the id and globalSequence values are exactly
\* 1..n in document order, on the chunked path too: the numbering continues
\* across chunk boundaries without gaps or repeats.
C11_IdsContiguous ==
    \A s \in StoredIndexes : \A i \in 1..Len(s.index) :
        /\ s.index[i].id = i
        /\ s.index[i].globalSequence = i
        /\ i < Len(s.index) => s.index[i].offset < s.index[i + 1].offset

\* C11 witness: a stored chunked index with occurrences from different chunks
C11_Witness ==
    \E s \in StoredIndexes :
        /\ IsLarge(s.text)
        /\ \E i, j \in 1..Len(s.index) :
              s.index[i].offset \div chunkSize # s.index[j].offset \div chunkSize

\* C12: the chunked scan of a text above the threshold that holds <x/> one
\* hundred times at top level, none cut by a chunk boundary, stores exactly
\* one hundred occurrences of x, each with siblingCount 100 and orderInTag
\* 1..100 in document order.
C12_HundredX ==
    \A s \in StoredIndexes : s.text = HundredX =>
        /\ Len(s.index) = 100
        /\ \A i \in 1..Len(s.index) :
              /\ s.index[i].tag = TagX
              /\ s.index[i].siblingCount = 100
              /\ s.index[i].orderInTag = i
              /\ s.index[i].offset = OffsetOf(HundredX, IF i <= 40 THEN i ELSE i + 1)

\* C12 witness: the text is above the threshold and its chunked scan is stored
C12_Witness ==
    /\ IsLarge(HundredX)
    /\ \E s \in StoredIndexes : s.text = HundredX /\ s.index # <<>>

\* the tag at item i is cut by a chunk boundary
Cut(text, i) ==
    OffsetOf(text, i) \div chunkSize #
        (OffsetOf(text, i) + text[i].n - 1) \div chunkSize

\* the opening and self-closing tags of a text that no chunk boundary cuts
Kept(text) ==
    {i \in 1..Len(text) : text[i].kind \in {"open", "self"} /\ ~Cut(text, i)}

\* C13: on the chunked path every occurrence has parent ROOT, the
\* occurrences are the opening and self-closing tags (a closing tag gives
\* none), two occurrences are in the same sibling group iff they have the
\* same tag, and siblingCount is the number of occurrences of the tag in the
\* whole document.
C13_ChunkedGroupsByTag ==
    \A s \in StoredIndexes : IsLarge(s.text) =>
        /\ Len(s.index) = Cardinality(Kept(s.text))
        /\ \A i \in 1..Len(s.index) :
              /\ s.index[i].parent = Null
              /\ \E k \in Kept(s.text) :
                    /\ s.index[i].offset = OffsetOf(s.text, k)
                    /\ s.index[i].tag = s.text[k].tag
              /\ s.index[i].siblingCount =
                    Cardinality({j \in 1..Len(s.index) :
                                    s.index[j].tag = s.index[i].tag})
              /\ \A j \in 1..Len(s.index) :
                    (SiblingKey(s.index[i]) = SiblingKey(s.index[j]))
                        <=> (s.index[i].tag = s.index[j].tag)

\* C13 witness: a stored chunked index of a text in which a tag is nested in
\* another tag of the same name and closed
C13_Witness ==
    \E s \in StoredIndexes :
        /\ IsLarge(s.text)
        /\ \E i, j, k \in 1..Len(s.text) :
              /\ i < j /\ j < k
              /\ s.text[i].kind = "open" /\ s.text[k].kind = "close"
              /\ s.text[j].kind \in {"open", "self"}
              /\ s.text[j].tag = s.text[i].tag
              /\ {i, j} \subseteq Kept(s.text)
        /\ \E i \in 1..Len(s.index) : s.index[i].siblingCount = 2

\* C14: on both paths the line of every occurrence is the number of newline
\* characters in the document text before its offset.
C14_LineFromOffset ==
    \A s \in StoredIndexes : \A i \in 1..Len(s.index) :
        s.index[i].line = LinesBefore(s.text, s.index[i].offset)


\* C15: edit-driven rescans are coalesced.  When an edit of a document
\* arrives, every timer an earlier edit left pending is cancelled, so that at
\* most one rescan is pending and one rescan runs after the last edit of a
\* burst.
C15_EditsCoalesce ==
    /\ Cardinality(updateTimers) <= 1
    /\ \A d \in Docs :
          Cardinality({t \in timers : t.key = Key("change", d)}) <= 1

C17_ModesExclusive ==
    /\ ~(viewportMode /\ cursorMode)
    /\ shown.op = "toggleCursor" /\ ~shown.before[2] => ~shown.viewportMode
    /\ shown.op = "toggleViewport" /\ ~shown.before[1] => ~shown.cursorMode

\* xi.toggleCursorMode has turned cursor mode on while viewport mode was on
C17_Witness ==
    /\ shown.op = "toggleCursor"
    /\ shown.before = <<TRUE, FALSE>>
    /\ cursorMode

\* the entries of the index a query ran on that need indexing and are on the
\* cursor line, by place
AtCursor == {i \in 1..Len(shown.index) :
                /\ shown.index[i].needsIndexing
                /\ shown.index[i].line = shown.cursorLine}

\* C18: cursor query.  getEntryAtCursor returns an occurrence only if it
\* needs indexing and its line is the cursor line, returns none exactly when
\* there is no such occurrence, and of several such occurrences on the line
\* returns the first in document order.
C18_CursorQuery ==
    shown.enabled /\ shown.cursorMode =>
        /\ shown.hit = None <=> AtCursor = {}
        /\ shown.hit # None =>
              \E i \in AtCursor : /\ shown.hit[1] = shown.index[i]
                                  /\ \A j \in AtCursor : i <= j
        /\ ~shown.threw => shown.entries = shown.hit

\* a cursor query has run on a line holding two occurrences that need
\* indexing
C18_Witness ==
    /\ shown.enabled /\ shown.cursorMode
    /\ shown.op \in {"selection", "toggleCursor", "lens"}
    /\ shown.hit # None
    /\ Cardinality(AtCursor) >= 2

\* whether the line of an entry of the document lies in one of the ranges
\* (each is a range of whole lines)
InRanges(e) ==
    \E r \in shown.ranges :
        /\ r.start.line <= LinesBefore(shown.text, e.offset)
        /\ LinesBefore(shown.text, e.offset) <= r.end.line

\* C19: viewport query.  With viewport mode on and cursor mode off the
\* entries annotated, by a decoration or by a CodeLens, are exactly the
\* occurrences that need indexing and lie in one of the visible ranges, in
\* document order.
C19_ViewportQuery ==
    shown.enabled /\ shown.viewportMode /\ ~shown.cursorMode /\ ~shown.threw =>
        shown.entries =
            SelectSeq(shown.index, LAMBDA e : e.needsIndexing /\ InRanges(e))

\* C20: a positionAt failure is contained.  When positionAt fails for an
\* occurrence while applyInlineDecorations places the decorations, nothing is
\* thrown to the caller, that occurrence is decorated at column 0 of its line
\* and the other occurrences are decorated as well.
C20_PositionFailureContained ==
    /\ shown.enabled /\ shown.op \notin {"none", "lens"}
    /\ ~FilterThrows(shown.index, shown.cursorMode, shown.viewportMode,
                     shown.failing)
    =>
        /\ ~shown.threw
        /\ \A i \in 1..Len(shown.entries) :
              DecorationOffset(shown.text, shown.entries[i]) \in shown.failing
                  => shown.positions[i] = Position(shown.entries[i].line, 0)

\* C21: check-then-write atomicity.  In every scan the version check
\* (shouldReindex) and the cache write (processAndCacheResults) of that scan
\* happen with no suspension between them: while a scan is between its check
\* and its write, no edit or close of its document and no other scan request
\* for it has been processed.
C21_CheckThenWriteAtomic ==
    \A i \in 1..Len(inflight) :
        /\ inflight[i].ver = docVersion[inflight[i].doc]
        /\ docOpen[inflight[i].doc]
        /\ \A j \in 1..Len(inflight) :
              j # i => inflight[j].doc # inflight[i].doc

\* the document of the last scanDocumentForTags call holds a text of at most
\* LARGE_FILE_THRESHOLD characters, and the call did not return a cached index
SmallCall ==
    /\ last.op = "call" /\ ~last.hit
    /\ TextLength(docText[last.doc]) <= LARGE_FILE_THRESHOLD

\* C22: only the chunked scanner suspends.  For a document of at most 50,000
\* characters scanDocumentForTags checks the version, tokenizes, groups and
\* writes in one step: when control returns to the event loop no scan of the
\* call is suspended and the index of the text seen at call time is stored
\* under the version seen at call time.
C22_RegularScanIsOneStep ==
    SmallCall =>
        LET d == last.doc
            index == ProcessedData(RegularData(docText[d]))
        IN /\ \A i \in 1..Len(inflight) : inflight[i].doc # d
           /\ last.data = Some(index)
           /\ xmlIndexerData[d] = Some(index)
           /\ MapHas(documentCache, d) /\ MapGet(documentCache, d) = index
           /\ lastIndexedVersionMap[d] = docVersion[d]

\* a text below the threshold with occurrences has been scanned
C22_Witness ==
    /\ SmallCall
    /\ xmlIndexerData[last.doc] # None
    /\ Len(xmlIndexerData[last.doc][1]) >= 2

\* the large texts a document of the editing specification holds
\* the offsets of the opening and self-closing tags of a text that no chunk
\* boundary cuts, in order
KeptOffsets(text) ==
    LET items == SelectSeq([i \in 1..Len(text) |-> i],
                           LAMBDA i : i \in Kept(text))
    IN [k \in 1..Len(items) |-> OffsetOf(text, items[k])]

\* the step that ran handler `ran` committed a scan with an occurrence for
\* every tag of `text` that no chunk boundary cuts
Committed(ran, text) ==
    /\ ran.op = "commit"
    /\ ran.data # None
    /\ Len(ran.data[1]) = Len(KeptOffsets(text))
    /\ \A i \in 1..Len(ran.data[1]) :
          ran.data[1][i].offset = KeptOffsets(text)[i]

CommitOf(text) == Committed(last, text)

\* a step keeps every suspended scan, starts one, advances the oldest one
\* over further chunks of the text it captured, or commits it
ScanKeptOrCommitted ==
    \/ inflight' = inflight
    \/ /\ Len(inflight') = Len(inflight) + 1
       /\ SubSeq(inflight', 1, Len(inflight)) = inflight
    \/ /\ inflight # <<>>
       /\ Len(inflight') = Len(inflight)
       /\ SubSeq(inflight', 1, Len(inflight) - 1) = Tail(inflight)
       /\ inflight'[Len(inflight)].text = Head(inflight).text
       /\ inflight'[Len(inflight)].doc = Head(inflight).doc
       /\ inflight'[Len(inflight)].start > Head(inflight).start
    \/ /\ inflight # <<>>
       /\ inflight' = Tail(inflight)
       /\ last'.doc = Head(inflight).doc
       /\ Committed(last', Head(inflight).text)

\* C23: no cancellation.  Every started chunked scan processes every chunk
\* of the text it captured and reaches its commit step, whatever edits,
\* closes and rescans happen meanwhile: no step drops a suspended scan, and if
\* suspended scans are resumed every one of them commits.
C23_NoCancellation ==
    /\ [][ScanKeptOrCommitted]_vars
    /\ \A t \in LargeTexts :
          (\E i \in 1..Len(inflight) : inflight[i].text = t) ~> CommitOf(t)

\* a chunked scan has committed after its document was edited and closed
C23_Witness ==
    /\ last.op = "commit"
    /\ ~docOpen[last.doc]
    /\ docVersion[last.doc] > 1
    /\ last.data # None /\ last.data[1] # <<>>

\* the chunk (numbered from 0) a suspended scan has just processed
ChunkDone(s) == (s.start \div chunkSize) - 1

\* a step leaves the suspended scans alone, starts one (chunk 0, then the
\* first suspension), takes the oldest over two more chunks to its next
\* suspension, or takes it over at most one more chunk to its commit
YieldCadence ==
    \/ inflight' = inflight
    \/ /\ Len(inflight') = Len(inflight) + 1
       /\ inflight'[Len(inflight')].start = chunkSize
    \/ /\ inflight # <<>>
       /\ Len(inflight') = Len(inflight)
       /\ inflight'[Len(inflight')].start = Head(inflight).start + 2 * chunkSize
       /\ Head(inflight).start + chunkSize < TextLength(Head(inflight).text)
    \/ /\ inflight # <<>>
       /\ inflight' = Tail(inflight)
       /\ last'.op = "commit"
       /\ TextLength(Head(inflight).text) <= Head(inflight).start + chunkSize

\* C24: yield cadence.  scanLargeDocument suspends after chunk k exactly when
\* k is even: a suspended scan has just processed an even chunk, two chunks
\* lie between consecutive suspensions, at most one chunk lies between the
\* last suspension and the commit, and a call on the chunked path returns
\* suspended, never committed.
C24_YieldCadence ==
    /\ [](\A i \in 1..Len(inflight) :
             /\ inflight[i].start % chunkSize = 0
             /\ ChunkDone(inflight[i]) >= 0
             /\ ChunkDone(inflight[i]) % 2 = 0)
    /\ []((last.op = "call" /\ ~last.hit /\ IsLarge(docText[last.doc]))
             => (last.data = None /\ inflight # <<>>))
    /\ [][YieldCadence]_vars

\* a scan is suspended for the third time, after chunk 4
C24_Witness ==
    /\ inflight # <<>>
    /\ ChunkDone(inflight[1]) = 4
    /\ last.op = "other"

\* C25: path selection.  A call that scans takes the chunked path exactly
\* when the text is longer than LARGE_FILE_THRESHOLD; a text of exactly that
\* length is scanned by the tokenizer and its tags get their parent links; a
\* longer text is scanned in chunks and every parent is ROOT.
C25_PathSelection ==
    /\ (last.op = "call" /\ ~last.hit) =>
          /\ (inflight # <<>>) <=>
                 (TextLength(docText[last.doc]) > LARGE_FILE_THRESHOLD)
          /\ TextLength(docText[last.doc]) = LARGE_FILE_THRESHOLD =>
                 /\ last.data # None
                 /\ ParentsAreInnermost(docText[last.doc], last.data[1])
    /\ (last.op = "commit"
            /\ TextLength(docText[last.doc]) > LARGE_FILE_THRESHOLD) =>
          /\ last.data # None
          /\ \A i \in 1..Len(last.data[1]) : last.data[1][i].parent = Null

\* the (tag, offset) pairs of a sequence of entries
TagOffsets(entries) ==
    [i \in 1..Len(entries) |-> <<entries[i].tag, entries[i].offset>>]

\* one pass of the tag pattern of processChunkRegex over the whole text
OnePass(text) ==
    TagOffsets(ChunkMatches(text, 1, Len(text), 0, TextLength(text),
                            [entries |-> <<>>, nextId |-> 0]).entries)

\* a tag that begins at this offset is cut by a chunk boundary
CutAt(text, offset) ==
    \E i \in 1..Len(text) :
        IsTag(text[i]) /\ OffsetOf(text, i) = offset /\ Cut(text, i)

\* C26: chunk boundaries.  The chunked scan reports, in order, exactly the
\* (tag, offset) pairs one pass of the same pattern over the whole text
\* reports for the tags no chunk boundary cuts: each such tag once, at its
\* offset in the whole document; the two outputs are equal when no tag is
\* cut and differ only by the cut tags, which the chunked scan misses.
C26_ChunkBoundary ==
    \A s \in StoredIndexes : IsLarge(s.text) =>
        /\ TagOffsets(s.index) =
               SelectSeq(OnePass(s.text), LAMBDA p : ~CutAt(s.text, p[2]))
        /\ (\A i \in 1..Len(s.text) : IsTag(s.text[i]) => ~Cut(s.text, i))
               => TagOffsets(s.index) = OnePass(s.text)
        /\ \A k \in Kept(s.text) :
               Cardinality({i \in 1..Len(s.index) :
                               /\ s.index[i].offset = OffsetOf(s.text, k)
                               /\ s.index[i].tag = s.text[k].tag}) = 1

\* a stored chunked index of two occurrences, of a text in which a tag is cut
\* by a chunk boundary and a later tag is not
C26_Witness ==
    \E s \in StoredIndexes :
        /\ IsLarge(s.text)
        /\ Len(s.index) = 2
        /\ \E i \in 1..Len(s.text) :
              /\ s.text[i].kind \in {"open", "self"}
              /\ Cut(s.text, i)
              /\ \E j \in Kept(s.text) : j > i

\* the closing tag at item c is met while the nesting stack is empty: no
\* opening tag comes before it
UnmatchedClose(text, c) ==
    /\ text[c].kind = "close"
    /\ \A j \in 1..(c - 1) : text[j].kind # "open"

\* C27: an unmatched closing tag is ignored.  When a closing tag is met
\* while the stack is empty the scan still returns; it has one occurrence per
\* opening or self-closing tag and none for the closing tag, the ids are
\* 1..n, and the next opening or self-closing tag has parent ROOT.
C27_UnmatchedCloseIgnored ==
    SmallCall =>
        LET text == docText[last.doc] IN
        \A c \in 1..Len(text) : UnmatchedClose(text, c) =>
            /\ last.data # None
            /\ Len(last.data[1]) = IdOf(text, Len(text))
            /\ \A i \in 1..Len(last.data[1]) : last.data[1][i].id = i
            /\ \A k \in (c + 1)..Len(text) :
                  (/\ text[k].kind \in {"open", "self"}
                   /\ \A j \in (c + 1)..(k - 1) : text[j].kind # "open") =>
                      /\ last.data[1][IdOf(text, k)].tag = text[k].tag
                      /\ last.data[1][IdOf(text, k)].parent = Null

\* a scan of a text that begins with a closing tag, then opens a tag and has
\* a tag inside it: the stack works after the ignored closing tag
C27_Witness ==
    /\ SmallCall
    /\ Len(docText[last.doc]) = 3
    /\ UnmatchedClose(docText[last.doc], 1)
    /\ docText[last.doc][2].kind = "open"
    /\ docText[last.doc][3].kind = "self"
    /\ last.data # None
    /\ Len(last.data[1]) = 2
    /\ last.data[1][1].parent = Null
    /\ last.data[1][2].parent = 1

\* the nesting stack after items 1..k: an opening tag is pushed, a closing
\* tag pops whatever is on top
RECURSIVE NestingStack(_, _)
NestingStack(text, k) ==
    IF k = 0 THEN <<>>
    ELSE LET below == NestingStack(text, k - 1) IN
         CASE text[k].kind = "open" ->
                  Append(below, [id |-> IdOf(text, k), tag |-> text[k].tag])
           [] text[k].kind = "close" -> Pop(below)
           [] OTHER -> below

\* the id on top of a stack, or ROOT
TopId(stack) == IF stack = <<>> THEN Null ELSE stack[Len(stack)].id

\* the closing tag at item c names another tag than the one on top of the
\* stack, which is not empty
MismatchedClose(text, c) ==
    /\ text[c].kind = "close"
    /\ NestingStack(text, c - 1) # <<>>
    /\ NestingStack(text, c - 1)[Len(NestingStack(text, c - 1))].tag
           # text[c].tag

\* C28: a mismatched closing tag pops whatever is on top.  The scan returns,
\* and an opening or self-closing tag that follows the closing tag has the
\* new top of the stack, or ROOT, as parent.
C28_MismatchedClosePops ==
    SmallCall =>
        LET text == docText[last.doc] IN
        \A c \in 1..Len(text) : MismatchedClose(text, c) =>
            /\ last.data # None
            /\ \A k \in (c + 1)..Len(text) :
                  (/\ text[k].kind \in {"open", "self"}
                   /\ \A j \in (c + 1)..(k - 1) : ~IsTag(text[j])) =>
                      last.data[1][IdOf(text, k)].parent =
                          TopId(NestingStack(text, c))

\* C30: close is not undone by a scan in flight.  documentCache holds no
\* entry for a closed document: a chunked scan that was suspended when the
\* document was closed stores nothing for it when it completes.
C30_CloseNotUndone ==
    \A d \in Docs : ~docOpen[d] => ~MapHas(documentCache, d)

\* C29: a failed scan leaves the version bookkeeping unchanged.  After a scan
\* that threw, lastIndexedVersionMap does not hold the version of the
\* document, so a call that returns the cached index returns the index of
\* the text the document holds.
C29_FailedScanNotRecorded ==
    /\ last.op = "throw" =>
          lastIndexedVersionMap[last.doc] # docVersion[last.doc]
    /\ (last.op = "call" /\ last.hit) =>
          last.data = Some(ProcessedData(RegularData(docText[last.doc])))

\* the step is the firing of timer t: it leaves the host's timers, no other
\* timer is started or cancelled, and no document is closed
Fires(t) ==
    /\ t \in timers
    /\ timers' = timers \ {t}
    /\ last'.op # "close"

\* C31: a debounced rescan scans the document that was edited.  When the
\* timer an edit to D scheduled under change-D fires, scanDocumentForTags is
\* called for D, whichever editor is active by then.
C31_DebouncedRescanScansEdited ==
    [][\A t \in timers :
          (t.key.kind = "change" /\ Fires(t)) =>
              (last'.op = "call" /\ last'.doc = t.key.doc)]_vars

\* C32: debounce bookkeeping.  debouncedTimeouts holds, under its key, the
\* id of every debounce timer that is pending in the host, and nothing else;
\* no key has two pending timers; and a timer that fires has removed its key
\* by the end of its step unless its operation scheduled the key again.
C32_DebounceBookkeeping ==
    /\ [](/\ \A t \in timers : debouncedTimeouts[t.key] = t.id
          /\ \A k \in TimerKeys :
                debouncedTimeouts[k] # Null =>
                    \E t \in timers : t.key = k /\ t.id = debouncedTimeouts[k]
          /\ \A t, u \in timers : t.key = u.key => t = u)
    /\ [][\A t \in timers : Fires(t) => debouncedTimeouts'[t.key] = Null]_vars

\* two debounce timers are pending, one of them scheduled by the second edit
\* of the document
C32_Witness ==
    /\ Cardinality(timers) >= 2
    /\ \E d \in Docs :
          /\ docVersion[d] >= 3
          /\ debouncedTimeouts[Key("change", d)] # Null
          /\ debouncedTimeouts[Key("editor", d)] # Null

C34_Teardown ==
    last.op = "deactivate" =>
        /\ documentCache = <<>>
        /\ \A d \in Docs : lastIndexedVersionMap[d] = Null
        /\ \A d \in Docs : xmlIndexerData[d] = None
        /\ \A k \in TimerKeys : debouncedTimeouts[k] = Null
        /\ timers = {}

\* the extension was deactivated while two debounce timers were pending and
\* a chunked scan was suspended
C34_Witness ==
    /\ last.op = "deactivate"
    /\ Cardinality(last.cancelled) = 2
    /\ inflight # <<>>

----------------------------------------------------------------------------
(* Activation *)

\* activate(context): the commands and listeners are registered and, when
\* an editor is already showing, its document is indexed; globalThis
\* .xmlIndexerData, a new Map, is empty as it was before
Activate ==
    /\ host.state = "inactive"
    /\ host' = activate(host)
    /\ IF host'.state = "active" THEN doIndexDisplay ELSE NoScan(active)
    /\ heap' = HeapAfter
    /\ UNCHANGED <<docText, docVersion, docOpen, active, debouncedTimeouts,
                   timers, inlineMode, tokenTypeField, heapTraced,
                   eventsVars, queryVars>>

\* the user shows the editor of d: the listener activate installs, when it
\* was installed, indexes the document in inline mode
ShowEditor(d) ==
    /\ host.state # "inactive"
    /\ d # active
    /\ active' = d
    /\ docOpen' = [docOpen EXCEPT ![d] = TRUE]
    /\ IF "onDidChangeActiveTextEditor" \in host.listeners /\ inlineMode
       THEN CallScan(d, "display")
       ELSE NoScan(d)
    /\ Elsewhere
    /\ UNCHANGED <<docText, docVersion, debouncedTimeouts, timers,
                   inlineMode>>

\* the user runs a command the host holds
RunCommand(id) == id \in host.commands /\ host.state # "inactive"

\* Activation: the host activates the extension with or without an editor
\* showing, then editors are shown and the registered commands run
InitActivate ==
    /\ docText = [d \in Docs |-> ScenarioText]
    /\ docVersion = [d \in Docs |-> 1]
    /\ active \in SwitchDocs \cup {NoDoc}
    /\ docOpen = [d \in Docs |-> d = active]
    /\ documentCache = <<>>
    /\ lastIndexedVersionMap = [d \in Docs |-> Null]
    /\ xmlIndexerData = [d \in Docs |-> None]
    /\ debouncedTimeouts = [k \in TimerKeys |-> Null]
    /\ timers = {}
    /\ inflight = <<>>
    /\ doneData = [d \in Docs |-> None]
    /\ recency = <<>>
    /\ last = Ran("init", NoDoc)
    /\ inlineMode \in BOOLEAN
    /\ tokenTypeField \in BOOLEAN
    /\ host = NotActivated
    /\ IdleEvents
    /\ IdleQuery

NextActivate ==
    \/ Activate
    \/ \E d \in SwitchDocs : ShowEditor(d)
    \/ RunCommand("xi.toggleInlineMode") /\ ToggleInlineMode
    \/ RunCommand("xi.indexChildrenAll") /\ IndexChildrenAll

SpecActivate == InitActivate /\ [][NextActivate]_vars

\* C35: activation registers each command identifier at most once:
\* registerCommands never registers an identifier the host already holds, so
\* activate proceeds to registerEventHandlers and the viewport and selection
\* listeners are installed
C35_ActivationRegistersOnce ==
    host.state # "inactive" =>
        /\ host.state = "active"
        /\ EventHandlers \subseteq host.listeners

\* C36: store agreement: for every document key present in documentCache,
\* globalThis.xmlIndexerData holds the same index array under that key
C36_StoreAgreement ==
    \A d \in Docs :
        MapHas(documentCache, d) =>
            xmlIndexerData[d] = Some(MapGet(documentCache, d))

\* a scan replaced the index of a cached document by a different one
C36_Witness ==
    /\ last.op \in {"call", "commit"}
    /\ MapHas(documentCache, last.doc)
    /\ last.prev # None
    /\ last.data # last.prev
    /\ last.data = Some(MapGet(documentCache, last.doc))

----------------------------------------------------------------------------
(* Sibling keys of tag names that hold a colon *)

\* tag names the tag pattern [A-Za-z0-9_:-]+ accepts: plain, prefixed and
\* led by a colon
KeyTags == {<<"n">>, <<"n", ":", "a">>, <<":", "n">>}

\* the items of a text of such tags
KeyItems ==
    {OpenTag(t) : t \in KeyTags} \cup {SelfTag(t) : t \in KeyTags}
        \cup {CloseTag(<<"n">>)}

KeyTexts == UNION {[1..k -> KeyItems] : k \in 0..MaxItems}

\* Sibling keys: one open document holding a text of such tags is scanned
InitKeys ==
    /\ docText \in {[d \in Docs |-> IF d = 1 THEN t ELSE ScenarioText] :
                       t \in KeyTexts}
    /\ docVersion = [d \in Docs |-> 1]
    /\ docOpen = [d \in Docs |-> d = 1]
    /\ active = 1
    /\ documentCache = <<>>
    /\ lastIndexedVersionMap = [d \in Docs |-> Null]
    /\ xmlIndexerData = [d \in Docs |-> None]
    /\ debouncedTimeouts = [k \in TimerKeys |-> Null]
    /\ timers = {}
    /\ inflight = <<>>
    /\ doneData = [d \in Docs |-> None]
    /\ recency = <<>>
    /\ last = Ran("init", NoDoc)
    /\ inlineMode = FALSE
    /\ tokenTypeField \in BOOLEAN
    /\ Activated
    /\ IdleEvents
    /\ IdleQuery

NextKeys ==
    \/ IndexChildrenAllIdle
    \/ ToggleInlineMode

SpecKeys == InitKeys /\ [][NextKeys]_vars

\* the tag name holds a colon
HasColon(tag) == \E i \in 1..Len(tag) : tag[i] = ":"

\* the occurrences of the index that have the parent and the tag name of e
SameParentAndTag(data, e) ==
    {j \in 1..Len(data) :
        data[j].parent = e.parent /\ data[j].tag = e.tag}

\* C37: the sibling key parentKey + ":" + tag is injective over (parent, tag)
\* pairs also when tag names hold ":": two occurrences of an index get the
\* same key if and only if they have the same parent and the same tag name,
\* so the sibling count of an occurrence counts exactly those occurrences
C37_SiblingKeyInjective ==
    (last.op = "call" /\ last.data # None) =>
        LET data == last.data[1] IN
        \A i, j \in 1..Len(data) :
            /\ (SiblingKey(data[i]) = SiblingKey(data[j])) <=>
                   (data[i].parent = data[j].parent
                        /\ data[i].tag = data[j].tag)
            /\ data[i].parentKey = ParentKey(data[i])
            /\ data[i].siblingCount =
                   Cardinality(SameParentAndTag(data, data[i]))

\* three occurrences of a tag name that holds a colon: two under the same
\* element, which share a key, and one under another parent
C37_Witness ==
    /\ last.op = "call"
    /\ last.data # None
    /\ LET data == last.data[1] IN
       \E i, j, k \in 1..Len(data) :
           /\ i # j
           /\ HasColon(data[i].tag)
           /\ data[i].tag = data[j].tag
           /\ data[i].tag = data[k].tag
           /\ data[i].parent # Null
           /\ data[i].parent = data[j].parent
           /\ data[k].parent # data[i].parent
           /\ SiblingKey(data[i]) = SiblingKey(data[j])
           /\ SiblingKey(data[k]) # SiblingKey(data[i])
           /\ data[i].siblingCount = 2
           /\ data[k].siblingCount = 1

====
